---- MODULE Spec2Model ----
(***************************************************************************)
(* Model of the vehicle-listing text extraction engine of EbayScraper      *)
(* (src/utils/vehicleParser.ts).  Strings are TLA+ strings; a character is *)
(* a string of length one.  parseVehicles is modelled as a state machine   *)
(* that normalises and segments the input text, then runs one loop         *)
(* iteration per line.                                                     *)
(***************************************************************************)
EXTENDS Integers, Sequences, FiniteSets, TLC

VARIABLES
    text,       \* the argument of parseVehicles
    pc,         \* position in parseVehicles: "start", "loop", "done"
    lines,      \* const lines (vehicleParser.ts:103)
    i,          \* index (1-based) of the line the for-loop handles next
    vehicles,   \* const vehicles (vehicleParser.ts:97), the returned array
    log,        \* history: one entry per loop iteration already run
    results,    \* history: call number, text and returned array of the finished calls
    calls,      \* number of calls of parseVehicles started so far
    shownVehicles,  \* const [vehicles, setVehicles] (ImagePickerComponent.tsx:12)
    uiPc,       \* "processing" until setVehicles(detectedVehicles), then "shown"
    origin,     \* history: for each shown record, its index in the parser's array
    lastOp,     \* history: the last handler that ran, its arguments, the list it saw
    edits,      \* number of handler runs so far
    fn,         \* the helper applied last: "none" or its name
    arg,        \* the text handed to it (before any helper: the raw text)
    out,        \* << >>, or <<r>> with r the value it returned
    cachedToken,    \* let cachedToken (ebayApiService.ts:74)
    tokenExpiry,    \* let tokenExpiry (ebayApiService.ts:75), in milliseconds
    now,        \* Date.now(), in milliseconds
    caller,     \* for each caller of getAccessToken: where it is and what it saw
    requests,   \* number of token requests sent so far
    lastSet,    \* history: when the cache was last written and with which expires_in
    isProcessing,   \* const [isProcessing, setIsProcessing] (ImagePickerComponent.tsx:13)
    imgPc,      \* position in processImage: "idle", "preprocessing", "ocr", "parsing", "finished"
    alerts,     \* history: number of Alert.alert calls so far
    alertsAtStart,  \* history: the value of alerts when the running call started
    images,     \* number of processImage calls started so far
    configured, \* the value of isEbayConfigured() in this installation
    items,      \* const [items, setItems] (EbayResultsModal.tsx:27): whose results, how many
    error,      \* const [error, setError] (EbayResultsModal.tsx:29): whose error, which
    loading,    \* const [loading, setLoading] (EbayResultsModal.tsx:28)
    inFlight,   \* the performSearch calls waiting for searchEbay
    searches    \* number of searches started so far

\* The state of one invocation of parseVehicles
parserVars == <<text, pc, lines, i, vehicles, log>>
\* The history of the invocations
callVars == <<results, calls>>
\* The editable list of the user interface
listVars == <<shownVehicles, uiPc, origin, lastOp, edits>>
\* One helper of the parser at a time, applied as parseVehicles applies it
fnVars == <<fn, arg, out>>
\* The OAuth token cache of ebayApiService.ts and its callers
tokenVars == <<cachedToken, tokenExpiry, now, caller, requests, lastSet>>
\* The image picker component around processImage
imageVars == <<isProcessing, imgPc, alerts, alertsAtStart, images>>
\* What lies outside the parser
\* The eBay results modal
searchVars == <<configured, items, error, loading, inFlight, searches>>
envVars == <<listVars, fnVars, tokenVars, imageVars, searchVars>>
\* What an invocation of parseVehicles never touches
otherVars == <<callVars, envVars>>

vars == <<parserVars, otherVars>>

---------------------------------------------------------------------------
(* Characters and JavaScript string primitives                             *)

CharAt(s, p) == SubSeq(s, p, p)

DigitString == "0123456789"
UpperAlphabet == "ABCDEFGHIJKLMNOPQRSTUVWXYZ"
LowerAlphabet == "abcdefghijklmnopqrstuvwxyz"

CharsOf(s) == { CharAt(s, p) : p \in 1..Len(s) }

\* \d
Digits == CharsOf(DigitString)
\* [A-Z]
UpperLetters == CharsOf(UpperAlphabet)
LowerLetters == CharsOf(LowerAlphabet)
\* \w
WordChars == Digits \cup UpperLetters \cup LowerLetters \cup {"_"}
\* \s (the white space the inputs of the model contain)
Whitespace == {" ", "\t", "\n", "\r"}
\* [\n\r]
NewlineChars == {"\n", "\r"}

\* The character U+00A7 (section sign) of vehicleParser.ts:26.  The module is
\* kept in ASCII, so "$" stands for it: like U+00A7 it is no word character,
\* no digit, no white space and no hyphen, and no pattern of the code names it.
SectionSign == "$"

IndexIn(alphabet, c) == CHOOSE k \in 1..Len(alphabet) : CharAt(alphabet, k) = c

\* String.prototype.toUpperCase, one character
UpperChar(c) ==
    IF c \in LowerLetters THEN CharAt(UpperAlphabet, IndexIn(LowerAlphabet, c)) ELSE c

\* The string made of the pieces of a sequence, in order
Concat(pieces) ==
    LET c[k \in 0..Len(pieces)] == IF k = 0 THEN "" ELSE c[k - 1] \o pieces[k]
    IN  c[Len(pieces)]

ToUpperCase(s) == Concat([p \in 1..Len(s) |-> UpperChar(CharAt(s, p))])

\* String.prototype.trim
Trim(s) ==
    LET keep == { p \in 1..Len(s) : CharAt(s, p) \notin Whitespace }
    IN  IF keep = {} THEN ""
        ELSE SubSeq(s, CHOOSE p \in keep : \A q \in keep : p <= q,
                       CHOOSE p \in keep : \A q \in keep : q <= p)

\* String.prototype.substring(from) with a 0-based index
Substring(s, from) == SubSeq(s, from + 1, Len(s))

\* String.prototype.includes
Includes(s, sub) ==
    \E p \in 1..(Len(s) - Len(sub) + 1) : SubSeq(s, p, p + Len(sub) - 1) = sub

\* String.prototype.startsWith
StartsWith(s, prefix) == Len(prefix) <= Len(s) /\ SubSeq(s, 1, Len(prefix)) = prefix

\* The regular expression assertion \b before the character at position p
\* (p = Len(s) + 1: at the end of the string)
IsWordAt(s, p) == p >= 1 /\ p <= Len(s) /\ CharAt(s, p) \in WordChars
WordBoundary(s, p) == IsWordAt(s, p - 1) # IsWordAt(s, p)

\* String.prototype.split(/[sep]+/): the pieces between the runs of separators,
\* an empty piece before a leading run and after a trailing one included
RECURSIVE SplitFrom(_, _, _, _)
SplitFrom(s, sep, p, start) ==
    IF p > Len(s) THEN << SubSeq(s, start, Len(s)) >>
    ELSE IF CharAt(s, p) \in sep
         THEN LET rest == { q \in (p + 1)..Len(s) : CharAt(s, q) \notin sep }
                  next == IF rest = {} THEN Len(s) + 1
                          ELSE CHOOSE q \in rest : \A r \in rest : q <= r
              IN  << SubSeq(s, start, p - 1) >> \o SplitFrom(s, sep, next, next)
         ELSE SplitFrom(s, sep, p + 1, start)

Split(s, sep) == SplitFrom(s, sep, 1, 1)

\* Array.prototype.join
RECURSIVE Join(_, _)
Join(parts, glue) ==
    IF parts = << >> THEN ""
    ELSE IF Len(parts) = 1 THEN parts[1]
    ELSE parts[1] \o glue \o Join(Tail(parts), glue)

---------------------------------------------------------------------------
(* fixOCRErrors                                                            *)

\* fixed.replace(/\bJOI\b/g, '201')
ReplaceJOI(s) ==
    LET match(p) == /\ p >= 1
                    /\ p + 2 <= Len(s)
                    /\ SubSeq(s, p, p + 2) = "JOI"
                    /\ WordBoundary(s, p)
                    /\ WordBoundary(s, p + 3)
    IN  Concat([q \in 1..Len(s) |->
            IF match(q) THEN "2"
            ELSE IF match(q - 1) THEN "0"
            ELSE IF match(q - 2) THEN "1"
            ELSE CharAt(s, q)])

\* fixed.replace(/c/g, by) for a single character c
ReplaceChar(s, c, by) ==
    Concat([q \in 1..Len(s) |-> IF CharAt(s, q) = c THEN by ELSE CharAt(s, q)])

\* fixed.replace(/\bO\b/g, '0')
ReplaceStandaloneO(s) ==
    Concat([q \in 1..Len(s) |->
        IF CharAt(s, q) = "O" /\ WordBoundary(s, q) /\ WordBoundary(s, q + 1)
        THEN "0" ELSE CharAt(s, q)])

\* Variant of fixOCRErrors that forgets the case-fold (vehicleParser.ts:22)
fixOCRErrorsNoUpper(t) ==
    ReplaceStandaloneO(
        ReplaceChar(ReplaceChar(ReplaceJOI(t), SectionSign, "2"), "|", "1"))

fixOCRErrors(t) ==
    ReplaceStandaloneO(
        ReplaceChar(ReplaceChar(ReplaceJOI(ToUpperCase(t)), SectionSign, "2"), "|", "1"))

---------------------------------------------------------------------------
(* splitMakeModel, cleanText, extractYear                                  *)

\* Variant of COMMON_MAKES in which one name, CHEV, starts two others
COMMON_MAKES_WITH_CHEV ==
    << "CHEV", "CHEVROLET", "CHEVY", "FORD", "TOYOTA", "HONDA", "NISSAN", "GMC",
       "RAM", "JEEP", "DODGE", "HYUNDAI", "KIA", "MAZDA", "SUBARU", "VOLKSWAGEN",
       "VW", "BMW", "MERCEDES", "AUDI", "LEXUS", "ACURA", "INFINITI", "CADILLAC",
       "BUICK", "PONTIAC", "LINCOLN", "MERCURY", "CHRYSLER", "VOLVO", "MITSUBISHI" >>

COMMON_MAKES ==
    << "CHEVROLET", "CHEVY", "FORD", "TOYOTA", "HONDA", "NISSAN", "GMC", "RAM",
       "JEEP", "DODGE", "HYUNDAI", "KIA", "MAZDA", "SUBARU", "VOLKSWAGEN", "VW",
       "BMW", "MERCEDES", "AUDI", "LEXUS", "ACURA", "INFINITI", "CADILLAC",
       "BUICK", "PONTIAC", "LINCOLN", "MERCURY", "CHRYSLER", "VOLVO", "MITSUBISHI" >>

\* The for-loop of splitMakeModel: the first make of the list that starts the
\* upper-cased text and is followed by more characters decides
splitMakeModel(t) ==
    LET upperText == ToUpperCase(t)
        hits == { k \in 1..Len(COMMON_MAKES) :
                    /\ StartsWith(upperText, COMMON_MAKES[k])
                    /\ Len(upperText) > Len(COMMON_MAKES[k]) }
    IN  IF hits = {} THEN t
        ELSE LET make == COMMON_MAKES[CHOOSE k \in hits : \A j \in hits : k <= j]
             IN  make \o " " \o Substring(t, Len(make))

\* text.replace(/\s+/g, ' ')
CollapseWhitespace(s) ==
    Concat([q \in 1..Len(s) |->
        IF CharAt(s, q) \notin Whitespace THEN CharAt(s, q)
        ELSE IF q > 1 /\ CharAt(s, q - 1) \in Whitespace THEN ""
        ELSE " "])

\* text.replace(/[^\w\s\-]/g, ' ')
BlankSpecialChars(s) ==
    Concat([q \in 1..Len(s) |->
        IF CharAt(s, q) \in WordChars \cup Whitespace \cup {"-"}
        THEN CharAt(s, q) ELSE " "])

cleanText(t) == Trim(BlankSpecialChars(CollapseWhitespace(t)))

DigitValue(c) == IndexIn(DigitString, c) - 1

\* parseInt of a string of two digits
ParseInt2(twoDigit) == 10 * DigitValue(CharAt(twoDigit, 1)) + DigitValue(CharAt(twoDigit, 2))

\* Variant of FullYear that prefixes the parsed number, not the two digits:
\* `20${yearNum}` for `20${twoDigit}`, which loses a leading zero
FullYearUnpadded(twoDigit) ==
    LET yearNum == ParseInt2(twoDigit)
        shown == IF yearNum < 10 THEN CharAt(twoDigit, 2) ELSE twoDigit
    IN  IF yearNum >= 0 /\ yearNum <= 30 THEN "20" \o shown ELSE "19" \o shown

\* Variant of FullYear with the century boundary between 29 and 30
FullYearBelow30(twoDigit) ==
    LET yearNum == ParseInt2(twoDigit)
    IN  IF yearNum >= 0 /\ yearNum < 30 THEN "20" \o twoDigit ELSE "19" \o twoDigit

\* const fullYear (vehicleParser.ts:80)
FullYear(twoDigit) ==
    LET yearNum == ParseInt2(twoDigit)
    IN  IF yearNum >= 0 /\ yearNum <= 30 THEN "20" \o twoDigit ELSE "19" \o twoDigit

\* The positions (1-based) where /\b(19\d{2}|20\d{2})\b/ matches
FourDigitMatches(t) ==
    { p \in 1..(Len(t) - 3) :
        /\ WordBoundary(t, p)
        /\ SubSeq(t, p, p + 1) \in {"19", "20"}
        /\ CharAt(t, p + 2) \in Digits
        /\ CharAt(t, p + 3) \in Digits
        /\ WordBoundary(t, p + 4) }

\* Variant of extractYear that tries the two-digit rule before the
\* four-digit rule
extractYearTwoDigitFirst(t) ==
    LET four == { p \in 1..(Len(t) - 3) :
                    /\ IsWordAt(t, p - 1) # IsWordAt(t, p)
                    /\ SubSeq(t, p, p + 1) \in {"19", "20"}
                    /\ CharAt(t, p + 2) \in Digits
                    /\ CharAt(t, p + 3) \in Digits
                    /\ IsWordAt(t, p + 3) # IsWordAt(t, p + 4) }
        two == { p \in 1..(Len(t) - 3) :
                    /\ CharAt(t, p) \notin Digits
                    /\ CharAt(t, p + 1) \in Digits
                    /\ CharAt(t, p + 2) \in Digits
                    /\ \/ CharAt(t, p + 3) \in UpperLetters
                       \/ /\ p + 4 <= Len(t)
                          /\ CharAt(t, p + 3) \in Whitespace
                          /\ CharAt(t, p + 4) \in UpperLetters }
    IN  IF two # {}
        THEN LET index == (CHOOSE p \in two : \A q \in two : p <= q) - 1
                 twoDigit == SubSeq(t, index + 2, index + 3)
                 yearNum == 10 * DigitValue(CharAt(twoDigit, 1)) + DigitValue(CharAt(twoDigit, 2))
             IN  [found |-> TRUE,
                  year |-> IF yearNum <= 30 THEN "20" \o twoDigit ELSE "19" \o twoDigit,
                  restOfText |-> Trim(Substring(t, index + 1))]
        ELSE IF four # {}
        THEN LET index == (CHOOSE p \in four : \A q \in four : p <= q) - 1
             IN  [found |-> TRUE,
                  year |-> SubSeq(t, index + 1, index + 4),
                  restOfText |-> Trim(Substring(t, index + 4))]
        ELSE [found |-> FALSE, year |-> "", restOfText |-> ""]

\* The positions (1-based) where /[^\d](\d{2})(?=[A-Z]|\s[A-Z])/ matches
TwoDigitMatches(t) ==
    { p \in 1..(Len(t) - 3) :
        /\ CharAt(t, p) \notin Digits
        /\ CharAt(t, p + 1) \in Digits
        /\ CharAt(t, p + 2) \in Digits
        /\ \/ CharAt(t, p + 3) \in UpperLetters
           \/ /\ p + 4 <= Len(t)
              /\ CharAt(t, p + 3) \in Whitespace
              /\ CharAt(t, p + 4) \in UpperLetters }

Least(S) == CHOOSE p \in S : \A q \in S : p <= q

\* null
NoYear == [found |-> FALSE, year |-> "", restOfText |-> ""]

extractYear(t) ==
    IF FourDigitMatches(t) # {}
    THEN LET index == Least(FourDigitMatches(t)) - 1
         IN  [found |-> TRUE,
              year |-> SubSeq(t, index + 1, index + 4),
              restOfText |-> Trim(Substring(t, index + 4))]
    ELSE IF TwoDigitMatches(t) # {}
    THEN LET index == Least(TwoDigitMatches(t)) - 1
             match0 == SubSeq(t, index + 1, index + 3)
             twoDigit == SubSeq(t, index + 2, index + 3)
         IN  [found |-> TRUE,
              year |-> FullYear(twoDigit),
              restOfText |-> Trim(Substring(t, index + Len(match0) - Len(twoDigit)))]
    ELSE NoYear

---------------------------------------------------------------------------
(* parseVehicles                                                           *)

\* fixedText.split(/[\n\r]+/).filter(line => line.trim().length > 0)
Segment(fixedText) ==
    SelectSeq(Split(fixedText, NewlineChars), LAMBDA line : Len(Trim(line)) > 0)

\* Variant of IsNoise with the length test off by one (<= 5 for < 5)
IsNoiseOffByOne(trimmedLine) ==
    \/ Len(trimmedLine) <= 5
    \/ Includes(trimmedLine, "YARD")
    \/ Includes(trimmedLine, "ROW")
    \/ Includes(trimmedLine, "LOCAT")
    \/ Includes(trimmedLine, "Vehicle")

\* The condition of the `continue` (vehicleParser.ts:111)
IsNoise(trimmedLine) ==
    \/ Len(trimmedLine) < 5
    \/ Includes(trimmedLine, "YARD")
    \/ Includes(trimmedLine, "ROW")
    \/ Includes(trimmedLine, "LOCAT")
    \/ Includes(trimmedLine, "Vehicle")

\* vehicleText.split(/\s+/).filter(word => word.length > 0)
Words(vehicleText) ==
    SelectSeq(Split(vehicleText, Whitespace), LAMBDA word : Len(word) > 0)

\* Variant of YearRecords that renders fullText with the model even when the
\* model is empty
YearRecordsAlwaysModel(year, words) ==
    IF Len(words) >= 1
    THEN LET make == words[1]
             model == Join(Tail(words), " ")
         IN  << [year |-> year, make |-> make, model |-> model,
                 fullText |-> year \o " " \o make \o " " \o model] >>
    ELSE << >>

\* Variant of YearRecords that keeps a year with no token after it as a record
YearRecordsYearOnly(year, words) ==
    IF Len(words) >= 2
    THEN << [year |-> year, make |-> words[1], model |-> Join(Tail(words), " "),
             fullText |-> year \o " " \o words[1] \o " " \o Join(Tail(words), " ")] >>
    ELSE IF Len(words) = 1
    THEN << [year |-> year, make |-> words[1], model |-> "",
             fullText |-> year \o " " \o words[1]] >>
    ELSE << [year |-> year, make |-> "", model |-> "", fullText |-> year] >>

\* The records the year branch pushes (vehicleParser.ts:131-152)
YearRecords(year, words) ==
    IF Len(words) >= 2
    THEN LET make == words[1]
             model == Join(Tail(words), " ")
         IN  << [year |-> year, make |-> make, model |-> model,
                 fullText |-> year \o " " \o make \o " " \o model] >>
    ELSE IF Len(words) = 1
    THEN LET make == words[1]
         IN  << [year |-> year, make |-> make, model |-> "",
                 fullText |-> year \o " " \o make] >>
    ELSE << >>

\* Variant of FallbackRecords without the test cleanedLine.length > 0
FallbackRecordsNoGuard(cleanedLine) ==
    << [year |-> "", make |-> "", model |-> "", fullText |-> cleanedLine] >>

\* The records the no-year branch pushes (vehicleParser.ts:158-165)
FallbackRecords(cleanedLine) ==
    IF Len(cleanedLine) > 0
    THEN << [year |-> "", make |-> "", model |-> "", fullText |-> cleanedLine] >>
    ELSE << >>

\* Variant of LineRecords that records the line of the no-year branch as it
\* is, without cleaning it
LineRecordsUnclean(trimmedLine) ==
    LET yearData == extractYear(trimmedLine)
    IN  IF yearData.found
        THEN YearRecords(yearData.year,
                         Words(cleanText(splitMakeModel(yearData.restOfText))))
        ELSE FallbackRecords(trimmedLine)

\* The body of the for-loop for one line that passed the `continue`
LineRecords(trimmedLine) ==
    LET yearData == extractYear(trimmedLine)
    IN  IF yearData.found
        THEN YearRecords(yearData.year,
                         Words(cleanText(splitMakeModel(yearData.restOfText))))
        ELSE FallbackRecords(cleanText(trimmedLine))

\* Variant of Push that puts the new records in front (unshift for push)
PushFront(list, records) == records \o list

\* vehicles.push(...)
Push(list, records) == list \o records

---------------------------------------------------------------------------
(* Inputs                                                                  *)

MaxTokens == 3
MaxLines == 2

\* Fragments of yard-inventory scans; a text is a concatenation of fragments
Tokens ==
    { "2015", "05", "99", " ", ".", "\n", "\t", "-",
      "FORD", "CHEVROLETIMPALA", "ROW", "Vehicle", "O" }

TokenTexts ==
    LET upTo[n \in 0..MaxTokens] ==
            IF n = 0 THEN {""}
            ELSE upTo[n - 1] \cup { t \o k : t \in upTo[n - 1], k \in Tokens }
    IN  upTo[MaxTokens]

\* Whole lines, one for each way a line can end
CatalogLines ==
    { "2015 CHEVROLETIMPALA", "YARD ROW 3", "99 FORD F150", "RANDOM JUNK LINE",
      ". 05CHEVROLET IMPALA", "Ford", ". . .", "Vehicle 1987 FORD",
      "$015 FORD F|50", "2015.", "1. ACURA TL", "12 ARROW" }

CatalogTexts ==
    { Join(ls, "\n") :
        ls \in UNION { [1..n -> CatalogLines] : n \in 0..MaxLines } }

EndToEndText == "2015 CHEVROLETIMPALA\nYARD ROW 3\n99 FORD F150"

Inputs == TokenTexts \cup CatalogTexts \cup {EndToEndText}

---------------------------------------------------------------------------
(* The state machine                                                       *)

\* No call has finished yet
CallsIdle ==
    /\ results = {}
    /\ calls = 1

NoOp == [op |-> "none"]

\* ImagePickerComponent.tsx:12: useState<Vehicle[]>([])
ListIdle ==
    /\ shownVehicles = << >>
    /\ uiPc = "processing"
    /\ origin = << >>
    /\ lastOp = NoOp
    /\ edits = 0

NoOutput == << >>

FnIdle ==
    /\ fn = "none"
    /\ arg = ""
    /\ out = NoOutput

\* null
NoToken == 0

NumCallers == 2
Callers == 1..NumCallers

Idle == [kind |-> "idle"]

\* ebayApiService.ts:74-75: the cache is empty, nobody has called yet
TokenIdle ==
    /\ cachedToken = NoToken
    /\ tokenExpiry = 0
    /\ now = 0
    /\ caller = [c \in Callers |-> Idle]
    /\ requests = 0
    /\ lastSet = << >>

\* ImagePickerComponent.tsx:13: useState<boolean>(false), no image picked yet
ImageIdle ==
    /\ isProcessing = FALSE
    /\ imgPc = "idle"
    /\ alerts = 0
    /\ alertsAtStart = 0
    /\ images = 0

\* useState<EbayItem[]>([])
NoItems == [search |-> 0, found |-> 0]
\* useState<string | null>(null)
NoError == [search |-> 0, message |-> "null"]

\* EbayResultsModal.tsx:27-29: nothing searched yet
ModalIdle ==
    /\ items = NoItems
    /\ error = NoError
    /\ loading = FALSE
    /\ inFlight = {}
    /\ searches = 0

SearchIdle == configured = TRUE /\ ModalIdle

EnvIdle == ListIdle /\ FnIdle /\ TokenIdle /\ ImageIdle /\ SearchIdle

Init ==
    /\ text \in Inputs
    /\ pc = "start"
    /\ lines = << >>
    /\ i = 1
    /\ vehicles = << >>
    /\ log = << >>
    /\ CallsIdle
    /\ EnvIdle

\* vehicleParser.ts:97-105
Start ==
    /\ pc = "start"
    /\ lines' = Segment(fixOCRErrors(text))
    /\ pc' = "loop"
    /\ UNCHANGED <<text, i, vehicles, log>>
    /\ UNCHANGED otherVars

Entry(line, kind, before, after) ==
    [line |-> line, kind |-> kind, before |-> before, after |-> after]

\* vehicleParser.ts:107-113: the line is skipped
SkipLine ==
    /\ pc = "loop"
    /\ i <= Len(lines)
    /\ LET trimmedLine == Trim(lines[i])
       IN  /\ IsNoise(trimmedLine)
           /\ log' = Append(log, Entry(trimmedLine, "noise", Len(vehicles), Len(vehicles)))
    /\ i' = i + 1
    /\ UNCHANGED <<text, pc, lines, vehicles>>
    /\ UNCHANGED otherVars

\* vehicleParser.ts:116-152: a year was found
ParseYearLine ==
    /\ pc = "loop"
    /\ i <= Len(lines)
    /\ LET trimmedLine == Trim(lines[i])
       IN  /\ ~IsNoise(trimmedLine)
           /\ extractYear(trimmedLine).found
           /\ vehicles' = Push(vehicles, LineRecords(trimmedLine))
           /\ log' = Append(log, Entry(trimmedLine, "year", Len(vehicles), Len(vehicles')))
    /\ i' = i + 1
    /\ UNCHANGED <<text, pc, lines>>
    /\ UNCHANGED otherVars

\* vehicleParser.ts:116, 153-166: no year was found
ParseFallbackLine ==
    /\ pc = "loop"
    /\ i <= Len(lines)
    /\ LET trimmedLine == Trim(lines[i])
       IN  /\ ~IsNoise(trimmedLine)
           /\ ~extractYear(trimmedLine).found
           /\ vehicles' = Push(vehicles, LineRecords(trimmedLine))
           /\ log' = Append(log, Entry(trimmedLine, "fallback", Len(vehicles), Len(vehicles')))
    /\ i' = i + 1
    /\ UNCHANGED <<text, pc, lines>>
    /\ UNCHANGED otherVars

\* vehicleParser.ts:169
Return ==
    /\ pc = "loop"
    /\ i > Len(lines)
    /\ pc' = "done"
    /\ results' = results \cup { [call |-> calls, text |-> text, returned |-> vehicles] }
    /\ UNCHANGED <<text, lines, i, vehicles, log, calls>>
    /\ UNCHANGED envVars

Next == Start \/ SkipLine \/ ParseYearLine \/ ParseFallbackLine \/ Return

Spec == Init /\ [][Next]_vars

---------------------------------------------------------------------------
(* Repeated invocations of parseVehicles                                   *)

MaxCalls == 3

\* The texts of the repeated invocations
CallTexts ==
    { EndToEndText, "99 FORD F150", "2015 CHEVROLETIMPALA\n. . .", "Ford", "" }

\* The array of the previous invocation, were it kept
LeftoverVehicles == vehicles

\* vehicleParser.ts:97: every invocation creates its own array
InitialVehicles == << >>

\* vehicleParser.ts:96-97: parseVehicles is invoked again, after the previous
\* invocation has returned
Call ==
    /\ pc = "done"
    /\ calls < MaxCalls
    /\ text' \in CallTexts
    /\ pc' = "start"
    /\ lines' = << >>
    /\ i' = 1
    /\ vehicles' = InitialVehicles
    /\ log' = << >>
    /\ calls' = calls + 1
    /\ UNCHANGED results
    /\ UNCHANGED envVars

InitCalls ==
    /\ text \in CallTexts
    /\ pc = "start"
    /\ lines = << >>
    /\ i = 1
    /\ vehicles = << >>
    /\ log = << >>
    /\ CallsIdle
    /\ EnvIdle

NextCalls == Next \/ Call

SpecCalls == InitCalls /\ [][NextCalls]_vars

TypeOK ==
    /\ pc \in {"start", "loop", "done"}
    /\ i \in 1..(Len(lines) + 1)
    /\ Len(log) = i - 1

---------------------------------------------------------------------------
(* The editable vehicle list (EditableVehicleList)                         *)

MaxEdits == 3

\* The scans whose records are edited
ListTexts ==
    { EndToEndText, "2015 CHEVROLETIMPALA\n99 FORD F150\nFord F150 XL",
      "RANDOM JUNK LINE", "" }

\* What the user types into a record's text field
NewTexts == { "", "2016 FORD", "99 FORD F150" }

\* A handler that replaces the record by one made of the new text alone
EditAtReplacingRecord(list, index, newText) ==
    [k \in DOMAIN list |->
        IF k = index
        THEN [year |-> "", make |-> "", model |-> "", fullText |-> newText]
        ELSE list[k]]

\* part_000:17-21: copy of the array with the record at index replaced by
\* { ...record, fullText: newText }
EditAt(list, index, newText) ==
    [k \in DOMAIN list |->
        IF k = index THEN [list[k] EXCEPT !.fullText = newText] ELSE list[k]]

\* part_000:26: vehicles.filter((_, i) => i !== index)
DeleteAt(list, index) ==
    [k \in 1..(Len(list) - 1) |-> IF k < index THEN list[k] ELSE list[k + 1]]

InitEdit ==
    /\ text \in ListTexts
    /\ pc = "start"
    /\ lines = << >>
    /\ i = 1
    /\ vehicles = << >>
    /\ log = << >>
    /\ CallsIdle
    /\ EnvIdle

\* ImagePickerComponent.tsx:58-60: setVehicles(detectedVehicles)
SetVehicles ==
    /\ pc = "done"
    /\ uiPc = "processing"
    /\ shownVehicles' = vehicles
    /\ origin' = [k \in DOMAIN vehicles |-> k]
    /\ uiPc' = "shown"
    /\ UNCHANGED <<lastOp, edits>>
    /\ UNCHANGED <<parserVars, callVars, fnVars, tokenVars, imageVars, searchVars>>

\* part_000:16-23 with part_000:62: the text field of a rendered record
\* changes
handleEdit ==
    /\ uiPc = "shown"
    /\ edits < MaxEdits
    /\ \E index \in DOMAIN shownVehicles : \E newText \in NewTexts :
        /\ shownVehicles' = EditAt(shownVehicles, index, newText)
        /\ lastOp' = [op |-> "edit", index |-> index, newText |-> newText,
                      before |-> shownVehicles]
    /\ edits' = edits + 1
    /\ UNCHANGED <<uiPc, origin>>
    /\ UNCHANGED <<parserVars, callVars, fnVars, tokenVars, imageVars, searchVars>>

\* part_000:25-28 with part_000:76: Delete is pressed on a rendered record
handleDelete ==
    /\ uiPc = "shown"
    /\ edits < MaxEdits
    /\ \E index \in DOMAIN shownVehicles :
        /\ shownVehicles' = DeleteAt(shownVehicles, index)
        /\ origin' = DeleteAt(origin, index)
        /\ lastOp' = [op |-> "delete", index |-> index, before |-> shownVehicles]
    /\ edits' = edits + 1
    /\ UNCHANGED uiPc
    /\ UNCHANGED <<parserVars, callVars, fnVars, tokenVars, imageVars, searchVars>>

NextEdit == Next \/ SetVehicles \/ handleEdit \/ handleDelete

SpecEdit == InitEdit /\ [][NextEdit]_vars

---------------------------------------------------------------------------
(* The helpers of parseVehicles, one application at a time, on a scan of   *)
(* one line                                                                *)

MaxFnTokens == 3

FnTokens ==
    { "05", "2015", " ", ".", "FORD", "CHEVROLETIMPALA", "O", "|", "$", "joi", "_" }

FnTokenTexts ==
    LET upTo[n \in 0..MaxFnTokens] ==
            IF n = 0 THEN {""}
            ELSE upTo[n - 1] \cup { t \o k : t \in upTo[n - 1], k \in FnTokens }
    IN  upTo[MaxFnTokens]

\* A line for each two-digit number
TwoDigitLines == { ". " \o a \o b \o "FORD" : a \in Digits, b \in Digits }

FnCatalog ==
    { ". 05CHEVROLET IMPALA", "A05 FORD 2015 F150", "2015 FORD F150",
      "2015 CHEVROLETIMPALA", "A.B CDE", "A_B CDE", "O| FORD", "O$ 05FORD",
      "99 FORD F150", "RANDOM JUNK LINE", "YARD ROW 3", "2015 chevy-II",
      "A31 FORD X 1987 Y", "1. ACURA TL", "FORD - F.150" }

FnInputs == FnTokenTexts \cup TwoDigitLines \cup FnCatalog

InitFn ==
    /\ text = ""
    /\ pc = "start"
    /\ lines = << >>
    /\ i = 1
    /\ vehicles = << >>
    /\ log = << >>
    /\ CallsIdle
    /\ ListIdle
    /\ TokenIdle
    /\ ImageIdle
    /\ SearchIdle
    /\ fn = "none"
    /\ arg \in FnInputs
    /\ out = NoOutput

\* vehicleParser.ts:100: fixOCRErrors(text)
ApplyFixOCRErrors ==
    /\ fn = "none"
    /\ fn' = "fixOCRErrors"
    /\ out' = <<fixOCRErrors(arg)>>
    /\ UNCHANGED arg
    /\ UNCHANGED <<parserVars, callVars, listVars, tokenVars, imageVars, searchVars>>

\* vehicleParser.ts:103-116: the scan is one line that is not skipped;
\* extractYear(trimmedLine)
ApplyExtractYear ==
    /\ fn = "fixOCRErrors"
    /\ Segment(out[1]) = out
    /\ ~IsNoise(Trim(out[1]))
    /\ fn' = "extractYear"
    /\ arg' = Trim(out[1])
    /\ out' = <<extractYear(arg')>>
    /\ UNCHANGED <<parserVars, callVars, listVars, tokenVars, imageVars, searchVars>>

\* vehicleParser.ts:118-120: splitMakeModel(restOfText)
ApplySplitMakeModel ==
    /\ fn = "extractYear"
    /\ out[1].found
    /\ fn' = "splitMakeModel"
    /\ arg' = out[1].restOfText
    /\ out' = <<splitMakeModel(arg')>>
    /\ UNCHANGED <<parserVars, callVars, listVars, tokenVars, imageVars, searchVars>>

\* vehicleParser.ts:123: cleanText(vehicleText)
ApplyCleanVehicleText ==
    /\ fn = "splitMakeModel"
    /\ fn' = "cleanText"
    /\ arg' = out[1]
    /\ out' = <<cleanText(arg')>>
    /\ UNCHANGED <<parserVars, callVars, listVars, tokenVars, imageVars, searchVars>>

\* vehicleParser.ts:155: cleanText(trimmedLine), no year was found
ApplyCleanLine ==
    /\ fn = "extractYear"
    /\ ~out[1].found
    /\ fn' = "cleanText"
    /\ out' = <<cleanText(arg)>>
    /\ UNCHANGED arg
    /\ UNCHANGED <<parserVars, callVars, listVars, tokenVars, imageVars, searchVars>>

NextFn ==
    \/ ApplyFixOCRErrors
    \/ ApplyExtractYear
    \/ ApplySplitMakeModel
    \/ ApplyCleanVehicleText
    \/ ApplyCleanLine

SpecFn == InitFn /\ [][NextFn]_vars

\* cleanText applied to a text that cleanText returned
ApplyCleanTextAgain ==
    /\ fn = "cleanText"
    /\ fn' = "cleanText again"
    /\ arg' = out[1]
    /\ out' = <<cleanText(arg')>>
    /\ UNCHANGED <<parserVars, callVars, listVars, tokenVars, imageVars, searchVars>>

NextFnAgain == NextFn \/ ApplyCleanTextAgain

SpecFnAgain == InitFn /\ [][NextFnAgain]_vars

---------------------------------------------------------------------------
(* The OAuth token cache (getAccessToken)                                  *)

MaxSeconds == 2
MaxRequests == 2

\* ebayApiService.ts:107: the safety margin, in seconds
SafetyMarginSeconds == 300
\* ebayApiService.ts:107: milliseconds in a second
MsPerSecond == 1000

\* The lifetimes (response.data.expires_in, in seconds) the server grants
ExpiresIn == { 299, 300, 301, 302 }

\* Variant of CacheValid that still accepts the token at tokenExpiry
CacheValidInclusive == cachedToken # NoToken /\ now <= tokenExpiry

\* ebayApiService.ts:82: cachedToken && Date.now() < tokenExpiry
CacheValid == cachedToken # NoToken /\ now < tokenExpiry

\* What a caller sees on entry
Seen == [at |-> now, token |-> cachedToken, expiry |-> tokenExpiry,
         set |-> lastSet, requests |-> requests]

InitToken ==
    /\ text = ""
    /\ pc = "start"
    /\ lines = << >>
    /\ i = 1
    /\ vehicles = << >>
    /\ log = << >>
    /\ CallsIdle
    /\ ListIdle
    /\ FnIdle
    /\ TokenIdle
    /\ ImageIdle
    /\ SearchIdle

\* Time passes
Tick ==
    /\ now < MaxSeconds * MsPerSecond
    /\ now' = now + MsPerSecond
    /\ UNCHANGED <<cachedToken, tokenExpiry, caller, requests, lastSet>>
    /\ UNCHANGED <<parserVars, callVars, listVars, fnVars, imageVars, searchVars>>

\* ebayApiService.ts:80-84: getAccessToken is called and the cached token is
\* still valid
ReturnCached(c) ==
    /\ caller[c].kind # "awaiting"
    /\ CacheValid
    /\ caller' = [caller EXCEPT ![c] =
            [kind |-> "cached", seen |-> Seen, returned |-> cachedToken,
             requestsAfter |-> requests]]
    /\ UNCHANGED <<cachedToken, tokenExpiry, now, requests, lastSet>>
    /\ UNCHANGED <<parserVars, callVars, listVars, fnVars, imageVars, searchVars>>

\* ebayApiService.ts:80-103: getAccessToken is called without a valid cached
\* token and sends the token request
RequestToken(c) ==
    /\ caller[c].kind # "awaiting"
    /\ ~CacheValid
    /\ requests < MaxRequests
    /\ requests' = requests + 1
    /\ caller' = [caller EXCEPT ![c] = [kind |-> "awaiting", seen |-> Seen]]
    /\ UNCHANGED <<cachedToken, tokenExpiry, now, lastSet>>
    /\ UNCHANGED <<parserVars, callVars, listVars, fnVars, imageVars, searchVars>>

\* ebayApiService.ts:105-109: the response arrives
ReceiveToken(c) ==
    /\ caller[c].kind = "awaiting"
    /\ \E expires_in \in ExpiresIn :
        /\ tokenExpiry' = now + (expires_in - SafetyMarginSeconds) * MsPerSecond
        /\ lastSet' = <<[at |-> now, expires_in |-> expires_in]>>
    /\ cachedToken' = caller[c].seen.requests + 1
    /\ caller' = [caller EXCEPT ![c] =
            [kind |-> "fresh", seen |-> caller[c].seen, returned |-> cachedToken']]
    /\ UNCHANGED <<now, requests>>
    /\ UNCHANGED <<parserVars, callVars, listVars, fnVars, imageVars, searchVars>>

\* ebayApiService.ts:110-115: the request fails and getAccessToken throws
RequestFails(c) ==
    /\ caller[c].kind = "awaiting"
    /\ UNCHANGED <<cachedToken, tokenExpiry, now, requests, lastSet>>
    /\ caller' = [caller EXCEPT ![c] =
            [kind |-> "failed", seen |-> caller[c].seen,
             before |-> <<cachedToken, tokenExpiry>>,
             after |-> <<cachedToken', tokenExpiry'>>]]
    /\ UNCHANGED <<parserVars, callVars, listVars, fnVars, imageVars, searchVars>>

getAccessToken ==
    \E c \in Callers :
        ReturnCached(c) \/ RequestToken(c) \/ ReceiveToken(c) \/ RequestFails(c)

NextToken == Tick \/ getAccessToken

SpecToken == InitToken /\ [][NextToken]_vars

---------------------------------------------------------------------------
(* The image picker (processImage)                                         *)

MaxImages == 2

\* The texts the OCR returns (result.text)
ImageTexts ==
    { EndToEndText, "RANDOM JUNK LINE", "YARD ROW 3", ". . .", "" }

\* A variant of AlertIfEmpty that never alerts
NeverAlert(detectedVehicles, shown) == shown

\* ImagePickerComponent.tsx:62-64: the alert 'No Vehicles Found'
AlertIfEmpty(detectedVehicles, shown) ==
    IF Len(detectedVehicles) = 0 THEN shown + 1 ELSE shown

\* No image has been picked; the parser is not running
InitImage ==
    /\ text = ""
    /\ pc = "done"
    /\ lines = << >>
    /\ i = 1
    /\ vehicles = << >>
    /\ log = << >>
    /\ CallsIdle
    /\ EnvIdle

\* ImagePickerComponent.tsx:42-49: processImage is called (the button that
\* leads to it is disabled while isProcessing), up to the first await
processImage ==
    /\ imgPc \in {"idle", "finished"}
    /\ images < MaxImages
    /\ images' = images + 1
    /\ isProcessing' = TRUE
    /\ shownVehicles' = << >>
    /\ origin' = << >>
    /\ uiPc' = "processing"
    /\ imgPc' = "preprocessing"
    /\ alertsAtStart' = alerts
    /\ UNCHANGED <<alerts, lastOp, edits>>
    /\ UNCHANGED <<parserVars, callVars, fnVars, tokenVars, searchVars>>

\* ImagePickerComponent.tsx:49-52: preprocessImageForOCR resolves
PreprocessResolves ==
    /\ imgPc = "preprocessing"
    /\ imgPc' = "ocr"
    /\ UNCHANGED <<isProcessing, alerts, alertsAtStart, images>>
    /\ UNCHANGED <<parserVars, callVars, listVars, fnVars, tokenVars, searchVars>>

\* ImagePickerComponent.tsx:49 or 52, then 65-71: an awaited promise
\* rejects; catch alerts, finally clears isProcessing
AwaitRejects ==
    /\ imgPc \in {"preprocessing", "ocr"}
    /\ alerts' = alerts + 1
    /\ isProcessing' = FALSE
    /\ imgPc' = "finished"
    /\ UNCHANGED <<alertsAtStart, images>>
    /\ UNCHANGED <<parserVars, callVars, listVars, fnVars, tokenVars, searchVars>>

\* ImagePickerComponent.tsx:52-58: extractTextFromImage resolves and
\* parseVehicles(result.text) is entered
OcrResolves ==
    /\ imgPc = "ocr"
    /\ imgPc' = "parsing"
    /\ text' \in ImageTexts
    /\ pc' = "start"
    /\ lines' = << >>
    /\ i' = 1
    /\ vehicles' = InitialVehicles
    /\ log' = << >>
    /\ UNCHANGED <<isProcessing, alerts, alertsAtStart, images>>
    /\ UNCHANGED <<callVars, listVars, fnVars, tokenVars, searchVars>>

\* ImagePickerComponent.tsx:58-71: parseVehicles has returned;
\* setVehicles(detectedVehicles), the alert when nothing was detected,
\* finally setIsProcessing(false)
FinishParsed ==
    /\ imgPc = "parsing"
    /\ pc = "done"
    /\ shownVehicles' = vehicles
    /\ origin' = [k \in DOMAIN vehicles |-> k]
    /\ uiPc' = "shown"
    /\ alerts' = AlertIfEmpty(vehicles, alerts)
    /\ isProcessing' = FALSE
    /\ imgPc' = "finished"
    /\ UNCHANGED <<alertsAtStart, images, lastOp, edits>>
    /\ UNCHANGED <<parserVars, callVars, fnVars, tokenVars, searchVars>>

\* The steps that the running call takes by itself
ImageStep ==
    Next \/ PreprocessResolves \/ AwaitRejects \/ OcrResolves \/ FinishParsed

NextImage == processImage \/ ImageStep

SpecImage == InitImage /\ [][NextImage]_vars

---------------------------------------------------------------------------
(* The eBay results modal (performSearch)                                  *)

MaxSearches == 3

\* The numbers of items a search returns
Found == 0..2

InitSearch ==
    /\ text = ""
    /\ pc = "done"
    /\ lines = << >>
    /\ i = 1
    /\ vehicles = << >>
    /\ log = << >>
    /\ CallsIdle
    /\ ListIdle
    /\ FnIdle
    /\ TokenIdle
    /\ ImageIdle
    /\ configured \in BOOLEAN
    /\ ModalIdle

\* EbayResultsModal.tsx:39-43: performSearch without credentials
performSearchUnconfigured ==
    /\ ~configured
    /\ error.message # "not configured"
    /\ error' = [search |-> 0, message |-> "not configured"]
    /\ UNCHANGED <<configured, items, loading, inFlight, searches>>
    /\ UNCHANGED <<parserVars, callVars, listVars, fnVars, tokenVars, imageVars>>

\* EbayResultsModal.tsx:39-49: performSearch (the effect at 33-37 or the
\* Re-search button at 150) up to the await of searchEbay
performSearch ==
    /\ configured
    /\ searches < MaxSearches
    /\ searches' = searches + 1
    /\ loading' = TRUE
    /\ error' = NoError
    /\ inFlight' = inFlight \cup {searches'}
    /\ UNCHANGED <<configured, items>>
    /\ UNCHANGED <<parserVars, callVars, listVars, fnVars, tokenVars, imageVars>>

\* EbayResultsModal.tsx:49-54, 59-61: searchEbay resolves for search s
SearchResolves(s) ==
    /\ s \in inFlight
    /\ \E found \in Found :
        /\ items' = [search |-> s, found |-> found]
        /\ error' = IF found = 0
                    THEN [search |-> s, message |-> "No items found"]
                    ELSE error
    /\ loading' = FALSE
    /\ inFlight' = inFlight \ {s}
    /\ UNCHANGED <<configured, searches>>
    /\ UNCHANGED <<parserVars, callVars, listVars, fnVars, tokenVars, imageVars>>

\* EbayResultsModal.tsx:55-61: searchEbay rejects for search s
SearchRejects(s) ==
    /\ s \in inFlight
    /\ error' = [search |-> s, message |-> "failed"]
    /\ loading' = FALSE
    /\ inFlight' = inFlight \ {s}
    /\ UNCHANGED <<configured, items, searches>>
    /\ UNCHANGED <<parserVars, callVars, listVars, fnVars, tokenVars, imageVars>>

SearchCompletes == \E s \in inFlight : SearchResolves(s) \/ SearchRejects(s)

NextSearch == performSearchUnconfigured \/ performSearch \/ SearchCompletes

SpecSearch == InitSearch /\ [][NextSearch]_vars

---------------------------------------------------------------------------
(* Vocabulary of the properties                                            *)

\* A line survives the segmenter's noise filter: trimmed length at least 5
\* and none of the markers YARD, ROW, LOCAT
Survives(trimmedLine) ==
    /\ Len(trimmedLine) >= 5
    /\ ~Includes(trimmedLine, "YARD")
    /\ ~Includes(trimmedLine, "ROW")
    /\ ~Includes(trimmedLine, "LOCAT")

\* The tokens of the split-and-cleaned remainder of a line with a year
RemainderTokens(trimmedLine) ==
    Words(cleanText(splitMakeModel(extractYear(trimmedLine).restOfText)))

HasWhitespace(s) == \E p \in 1..Len(s) : CharAt(s, p) \in Whitespace

HasWhitespaceRun(s) ==
    \E p \in 1..(Len(s) - 1) :
        CharAt(s, p) \in Whitespace /\ CharAt(s, p + 1) \in Whitespace

Blank == [year |-> "", make |-> "", model |-> "", fullText |-> ""]

Finished == pc = "done"

---------------------------------------------------------------------------
(* C1 *)

EndToEndExpected ==
    << [year |-> "2015", make |-> "CHEVROLET", model |-> "IMPALA",
        fullText |-> "2015 CHEVROLET IMPALA"],
       [year |-> "1999", make |-> "FORD", model |-> "F150",
        fullText |-> "1999 FORD F150"] >>

\* C1: parseVehicles applied to the three lines "2015 CHEVROLETIMPALA",
\* "YARD ROW 3", "99 FORD F150" returns exactly the records 2015 CHEVROLET
\* IMPALA and 1999 FORD F150, in this order.
C1_EndToEnd ==
    (text = EndToEndText /\ Finished) => vehicles = EndToEndExpected

---------------------------------------------------------------------------
(* C2 *)

\* C2: every record of the returned sequence has a non-empty fullText, and a
\* line whose content is empty after cleaning yields no record.
C2_FullTextNonEmpty ==
    /\ \A k \in DOMAIN vehicles : vehicles[k].fullText # ""
    /\ \A j \in DOMAIN log :
          cleanText(log[j].line) = "" => log[j].after = log[j].before

C2_Witness ==
    /\ Finished
    /\ vehicles # << >>
    /\ \E j \in DOMAIN log :
          /\ log[j].kind = "fallback"
          /\ cleanText(log[j].line) = ""
          /\ log[j].after = log[j].before

---------------------------------------------------------------------------
(* C3 *)

\* A surviving line for which the code pushes nothing: a year with no token
\* after it, or no year and nothing left after cleaning
YieldsNothing(trimmedLine) ==
    IF extractYear(trimmedLine).found
    THEN RemainderTokens(trimmedLine) = << >>
    ELSE cleanText(trimmedLine) = ""

\* C3 as stated: exactly one record for each line that survives the noise
\* filter.
C3_OnePerSurvivingLine ==
    \A j \in DOMAIN log :
        Survives(log[j].line) => log[j].after = log[j].before + 1

\* C3 as amended: at most one record for each line that survives the noise
\* filter; exactly one, except none for a line with a year and no token after
\* it and none for a line with no year that is empty after cleaning.
C3_AtMostOnePerSurvivingLine ==
    \A j \in DOMAIN log :
        Survives(log[j].line) =>
            log[j].after = log[j].before + (IF YieldsNothing(log[j].line) THEN 0 ELSE 1)

C3_Witness ==
    /\ Finished
    /\ \E j \in DOMAIN log :
          Survives(log[j].line) /\ log[j].after = log[j].before + 1
    /\ \E j \in DOMAIN log :
          Survives(log[j].line) /\ log[j].after = log[j].before

---------------------------------------------------------------------------
(* C4 *)

\* C4: the records come from distinct surviving lines, in the order of those
\* lines: the k-th record is the record of one line alone, a later record
\* comes from a later line, and there are never more records than non-empty
\* lines after segmentation.
C4_OrderAndProvenance ==
    /\ Len(vehicles) <= Len(lines)
    /\ \A j \in DOMAIN log :
          /\ log[j].line = Trim(lines[j])
          /\ log[j].before = (IF j = 1 THEN 0 ELSE log[j - 1].after)
          /\ log[j].after - log[j].before \in {0, 1}
          /\ log[j].after = log[j].before + 1 =>
                /\ Survives(log[j].line)
                /\ log[j].after \in DOMAIN vehicles
                /\ << vehicles[log[j].after] >> = LineRecords(log[j].line)
    /\ Len(vehicles) = (IF log = << >> THEN 0 ELSE log[Len(log)].after)

C4_Witness ==
    /\ Finished
    /\ Len(vehicles) = 2
    /\ Len(lines) = 3
    /\ vehicles[1] # vehicles[2]
    /\ log[2].after = log[2].before

---------------------------------------------------------------------------
(* C5 *)

\* C5: a line is discarded by the segmenter if and only if its trimmed length
\* is below 5 or it contains YARD, ROW or LOCAT; a discarded line yields no
\* record; the marker "Vehicle" occurs in no line, the text being upper-cased.
C5_NoiseFilter ==
    /\ \A j \in DOMAIN log :
          /\ (log[j].kind = "noise") <=> ~Survives(log[j].line)
          /\ log[j].kind = "noise" => log[j].after = log[j].before
          /\ ~Includes(log[j].line, "Vehicle")
    /\ pc # "start" =>
          LET pieces == Split(fixOCRErrors(text), NewlineChars)
          IN  \A p \in DOMAIN pieces :
                  (\A j \in DOMAIN lines : lines[j] # pieces[p]) =>
                      Len(Trim(pieces[p])) = 0

C5_Witness ==
    /\ Finished
    /\ \E j \in DOMAIN log :
          /\ Includes(log[j].line, "VEHICLE")
          /\ log[j].kind # "noise"
          /\ log[j].after = log[j].before + 1
    /\ \E j \in DOMAIN log :
          /\ Includes(log[j].line, "ARROW")
          /\ Len(log[j].line) >= 5
          /\ log[j].kind = "noise"

---------------------------------------------------------------------------
(* C6 *)

FallbackText == "RANDOM JUNK LINE"

\* C6: a surviving line with no year is cleaned as a whole; a non-empty result
\* gives one record with empty year, make and model and the cleaned line as
\* fullText, an empty result gives no record; "RANDOM JUNK LINE" gives one
\* record with fullText "RANDOM JUNK LINE".
C6_Fallback ==
    /\ \A j \in DOMAIN log :
          (Survives(log[j].line) /\ ~extractYear(log[j].line).found) =>
              LET cleaned == cleanText(log[j].line)
              IN  IF cleaned # ""
                  THEN /\ log[j].after = log[j].before + 1
                       /\ log[j].after \in DOMAIN vehicles
                       /\ vehicles[log[j].after] = [Blank EXCEPT !.fullText = cleaned]
                  ELSE log[j].after = log[j].before
    /\ (text = FallbackText /\ Finished) =>
          vehicles = << [Blank EXCEPT !.fullText = "RANDOM JUNK LINE"] >>

C6_Witness ==
    /\ Finished
    /\ text = FallbackText
    /\ Len(vehicles) = 1
    /\ vehicles[1].year = ""

---------------------------------------------------------------------------
(* C7 *)

\* The log entry of the loop iteration that pushed the k-th record
EntryOf(k) == CHOOSE j \in DOMAIN log : log[j].before < k /\ k <= log[j].after

\* C7: for every record with a non-empty year, make is the first
\* whitespace-delimited token of the split-and-cleaned remainder after the
\* year, model is the remaining tokens joined by single spaces, and fullText
\* is year, make and (when not empty) model, separated by single spaces.
C7_YearRecordFields ==
    \A k \in DOMAIN vehicles :
        vehicles[k].year # "" =>
            LET v == vehicles[k]
                line == log[EntryOf(k)].line
                remainder == cleanText(splitMakeModel(extractYear(line).restOfText))
                tokens == Words(remainder)
            IN  /\ extractYear(line).found
                /\ v.year = extractYear(line).year
                /\ tokens # << >>
                /\ v.make = tokens[1]
                /\ v.make # "" /\ ~HasWhitespace(v.make)
                /\ StartsWith(remainder, v.make)
                /\ \/ Len(remainder) = Len(v.make)
                   \/ CharAt(remainder, Len(v.make) + 1) \in Whitespace
                /\ v.model = Join(Tail(tokens), " ")
                /\ (v.model = "") <=> (Len(tokens) = 1)
                /\ v.fullText = (IF v.model = "" THEN v.year \o " " \o v.make
                                 ELSE v.year \o " " \o v.make \o " " \o v.model)

C7_Witness ==
    /\ Finished
    /\ \E k \in DOMAIN vehicles : vehicles[k].year # "" /\ vehicles[k].model = ""
    /\ \E k \in DOMAIN vehicles : vehicles[k].year # "" /\ vehicles[k].model # ""

---------------------------------------------------------------------------
(* C8 *)

\* C8: a line with a year and no token in the split-and-cleaned remainder
\* yields no record, neither a year-only record nor a fallback record, and
\* the loop goes on to the next line.
C8_YearOnlyDropped ==
    \A j \in DOMAIN log :
        (/\ Survives(log[j].line)
         /\ extractYear(log[j].line).found
         /\ RemainderTokens(log[j].line) = << >>) =>
            /\ log[j].after = log[j].before
            /\ i > j

C8_Witness ==
    /\ Finished
    /\ \E j \in DOMAIN log :
          /\ log[j].kind = "year"
          /\ RemainderTokens(log[j].line) = << >>
          /\ log[j].after = log[j].before

---------------------------------------------------------------------------
(* C9 *)

IsYearString(y) ==
    /\ Len(y) = 4
    /\ \A p \in 1..4 : CharAt(y, p) \in Digits
    /\ LET value == 1000 * DigitValue(CharAt(y, 1)) + 100 * DigitValue(CharAt(y, 2))
                    + 10 * DigitValue(CharAt(y, 3)) + DigitValue(CharAt(y, 4))
       IN  1900 <= value /\ value <= 2099

\* C9: the year of every record is the empty string or four decimal digits
\* with a value from 1900 to 2099.
C9_YearRange ==
    \A k \in DOMAIN vehicles :
        vehicles[k].year = "" \/ IsYearString(vehicles[k].year)

C9_Witness ==
    /\ Finished
    /\ \E j \in DOMAIN log :
          /\ log[j].kind = "year"
          /\ FourDigitMatches(log[j].line) = {}
          /\ log[j].after = log[j].before + 1
          /\ SubSeq(vehicles[log[j].after].year, 1, 2) = "20"
    /\ \E k \in DOMAIN vehicles : vehicles[k].year = ""

---------------------------------------------------------------------------
(* C10 *)

\* C10: the fullText of every record has no leading or trailing white space
\* and no two consecutive white space characters.
C10_CanonicalSpacing ==
    \A k \in DOMAIN vehicles :
        /\ Trim(vehicles[k].fullText) = vehicles[k].fullText
        /\ ~HasWhitespaceRun(vehicles[k].fullText)

---------------------------------------------------------------------------
(* C11 *)

\* A Vehicle: four strings, a fullText that is not empty and a year that is
\* empty or a year
WellFormed(v) ==
    /\ DOMAIN v = {"year", "make", "model", "fullText"}
    /\ \A f \in DOMAIN v : v[f] \in STRING
    /\ v.fullText # ""
    /\ v.year = "" \/ IsYearString(v.year)

\* The guards of the steps of parseVehicles: the entry, the return after the
\* last line, and for a line one of the three branches of the loop body
CanStep ==
    \/ pc = "start"
    \/ pc = "loop" /\ i > Len(lines)
    \/ /\ pc = "loop"
       /\ i \in 1..Len(lines)
       /\ \/ IsNoise(Trim(lines[i]))
          \/ extractYear(Trim(lines[i])).found
          \/ ~extractYear(Trim(lines[i])).found

\* C11: for every input text parseVehicles terminates without an exception
\* and returns a (possibly empty) sequence of well-formed records: before the
\* return a step is always possible, the loop has run one iteration for each
\* line before the current one and never goes past the last line, there are
\* no more lines than characters, every record is well formed, and the
\* finished call has returned the array.
C11_Total ==
    /\ Finished \/ CanStep
    /\ Len(log) = i - 1
    /\ i <= Len(lines) + 1
    /\ Len(lines) <= Len(text)
    /\ \A k \in DOMAIN vehicles : WellFormed(vehicles[k])
    /\ Finished => [call |-> calls, text |-> text, returned |-> vehicles] \in results

C11_Witness ==
    /\ Finished
    /\ text = ". . ."
    /\ vehicles = << >>
    /\ results = { [call |-> 1, text |-> text, returned |-> << >>] }

---------------------------------------------------------------------------
(* C12 *)

\* C12: parseVehicles is deterministic and keeps no state between
\* invocations: any two finished invocations on the same text, whatever was
\* invoked before and between them, returned the same records in the same
\* order.
C12_Deterministic ==
    \A r1 \in results : \A r2 \in results :
        r1.text = r2.text => r1.returned = r2.returned

\* The first and the third invocation are on the same text, the second on
\* another one, and all of them returned records
C12_Witness ==
    \E r1 \in results : \E r2 \in results : \E r3 \in results :
        /\ r1.call = 1 /\ r2.call = 2 /\ r3.call = 3
        /\ r1.text = r3.text
        /\ r1.text # r2.text
        /\ r1.returned # << >>
        /\ r2.returned # << >>

---------------------------------------------------------------------------
(* C13 *)

SameCar(a, b) == a.year = b.year /\ a.make = b.make /\ a.model = b.model

\* C13: after any sequence of edits and deletions, every remaining record
\* has the year, make and model the parser produced for it; handleEdit
\* changes only the fullText of the record at index and leaves the other
\* records, the length and the order unchanged; handleDelete removes exactly
\* the record at index and keeps the others unchanged in their order.
C13_EditFrame ==
    /\ uiPc = "shown" =>
        /\ Len(origin) = Len(shownVehicles)
        /\ \A k \in DOMAIN shownVehicles :
            /\ origin[k] \in DOMAIN vehicles
            /\ SameCar(shownVehicles[k], vehicles[origin[k]])
            /\ \A j \in DOMAIN shownVehicles : j < k => origin[j] < origin[k]
    /\ lastOp.op = "edit" =>
        /\ Len(shownVehicles) = Len(lastOp.before)
        /\ shownVehicles[lastOp.index].fullText = lastOp.newText
        /\ SameCar(shownVehicles[lastOp.index], lastOp.before[lastOp.index])
        /\ \A k \in DOMAIN shownVehicles :
            k # lastOp.index => shownVehicles[k] = lastOp.before[k]
    /\ lastOp.op = "delete" =>
        /\ Len(shownVehicles) = Len(lastOp.before) - 1
        /\ \A k \in DOMAIN shownVehicles :
            shownVehicles[k] = lastOp.before[IF k < lastOp.index THEN k ELSE k + 1]

\* Of three parsed records the second was deleted and then the last one
\* edited
C13_Witness ==
    /\ Len(vehicles) = 3
    /\ edits = 2
    /\ origin = <<1, 3>>
    /\ lastOp.op = "edit"
    /\ lastOp.index = 2
    /\ shownVehicles[2].fullText = "2016 FORD"
    /\ shownVehicles[2].year # "2016"

---------------------------------------------------------------------------
(* C14 *)

\* A four-digit token 19xx or 20xx at word boundaries starts at position p
YearTokenAt(s, p) ==
    /\ p >= 1 /\ p + 3 <= Len(s)
    /\ SubSeq(s, p, p + 1) \in {"19", "20"}
    /\ CharAt(s, p + 2) \in Digits
    /\ CharAt(s, p + 3) \in Digits
    /\ ~IsWordAt(s, p - 1)
    /\ ~IsWordAt(s, p + 4)

\* A two-digit token starts at position p: a character that is not a digit
\* before it, a capital letter or white space and a capital letter after it
TwoDigitTokenAt(s, p) ==
    /\ p >= 2 /\ p + 2 <= Len(s)
    /\ CharAt(s, p - 1) \notin Digits
    /\ CharAt(s, p) \in Digits
    /\ CharAt(s, p + 1) \in Digits
    /\ \/ CharAt(s, p + 2) \in UpperLetters
       \/ /\ p + 3 <= Len(s)
          /\ CharAt(s, p + 2) \in Whitespace
          /\ CharAt(s, p + 3) \in UpperLetters

HasYearToken(s) == \E p \in 1..Len(s) : YearTokenAt(s, p)
HasTwoDigitToken(s) == \E p \in 1..Len(s) : TwoDigitTokenAt(s, p)
FirstYearToken(s) == Least({ p \in 1..Len(s) : YearTokenAt(s, p) })
FirstTwoDigitToken(s) == Least({ p \in 1..Len(s) : TwoDigitTokenAt(s, p) })

\* extractYear has returned for a line on which only the two-digit rule
\* matches
TwoDigitPath ==
    /\ fn = "extractYear"
    /\ ~HasYearToken(arg)
    /\ HasTwoDigitToken(arg)

\* C14: on the two-digit path restOfText is the trimmed text that follows the
\* two-digit token, without the boundary character and without the two
\* digits.
C14_TwoDigitRemainder ==
    TwoDigitPath =>
        /\ out[1].found
        /\ out[1].restOfText =
              Trim(SubSeq(arg, FirstTwoDigitToken(arg) + 2, Len(arg)))

---------------------------------------------------------------------------
(* C15 *)

\* The two-digit tokens with a value of 0 to 30
UpTo30 == { a \o b : a \in {"0", "1", "2"}, b \in Digits } \cup {"30"}

\* C15: on the two-digit path a token of value 0 to 30 yields "20" followed
\* by the two digits and a token of value 31 to 99 yields "19" followed by
\* the two digits, leading zeros kept; ". 05CHEVROLET IMPALA" gives "2005".
C15_Century ==
    /\ TwoDigitPath =>
        LET p == FirstTwoDigitToken(arg)
            twoDigit == SubSeq(arg, p, p + 1)
        IN  /\ out[1].found
            /\ twoDigit \in UpTo30 => out[1].year = "20" \o twoDigit
            /\ twoDigit \notin UpTo30 => out[1].year = "19" \o twoDigit
    /\ fn = "extractYear" /\ arg = ". 05CHEVROLET IMPALA" => out[1].year = "2005"

\* The last token of the 2000s
C15_Witness ==
    /\ TwoDigitPath
    /\ arg = ". 30FORD"
    /\ out[1].year = "2030"

---------------------------------------------------------------------------
(* C16 *)

\* C16: with a four-digit token 19xx or 20xx at word boundaries in the line,
\* extractYear returns the leftmost such token and the trimmed text after it,
\* even when a qualifying two-digit token comes earlier; the two-digit rule
\* applies only without a four-digit token, and there is no match only when
\* both rules fail.
C16_FourDigitFirst ==
    fn = "extractYear" =>
        /\ HasYearToken(arg) =>
            LET p == FirstYearToken(arg)
            IN  /\ out[1].found
                /\ out[1].year = SubSeq(arg, p, p + 3)
                /\ out[1].restOfText = Trim(SubSeq(arg, p + 4, Len(arg)))
        /\ ~HasYearToken(arg) /\ HasTwoDigitToken(arg) =>
            LET p == FirstTwoDigitToken(arg)
            IN  /\ out[1].found
                /\ SubSeq(out[1].year, 3, 4) = SubSeq(arg, p, p + 1)
        /\ ~HasYearToken(arg) /\ ~HasTwoDigitToken(arg) => ~out[1].found

\* A qualifying two-digit token before the four-digit token
C16_Witness ==
    /\ fn = "extractYear"
    /\ arg = "A05 FORD 2015 F150"
    /\ TwoDigitTokenAt(arg, 2)
    /\ out[1].year = "2015"
    /\ out[1].restOfText = "F150"

---------------------------------------------------------------------------
(* C17 *)

\* The makes that start the upper-cased text and are directly followed by a
\* character that is not a space
GluedMakes(s) ==
    { k \in DOMAIN COMMON_MAKES :
        /\ StartsWith(ToUpperCase(s), COMMON_MAKES[k])
        /\ Len(s) > Len(COMMON_MAKES[k])
        /\ CharAt(s, Len(COMMON_MAKES[k]) + 1) # " " }

\* C17: splitMakeModel changes its input only when the upper-cased text
\* starts with a known make directly followed by a character that is not a
\* space, and then inserts exactly one space after the make; in every other
\* case, a make already followed by a space included, it returns the input
\* unchanged.
C17_SplitOnlyGlued ==
    fn = "splitMakeModel" =>
        IF GluedMakes(arg) = {}
        THEN out[1] = arg
        ELSE LET make == COMMON_MAKES[Least(GluedMakes(arg))]
             IN  out[1] = make \o " " \o SubSeq(arg, Len(make) + 1, Len(arg))

---------------------------------------------------------------------------
(* C18 *)

\* Every character that is not a letter, a digit, white space or a hyphen
\* deleted
DeleteSpecialChars(s) ==
    Concat([q \in 1..Len(s) |->
        IF CharAt(s, q) \in UpperLetters \cup LowerLetters \cup Digits
                              \cup Whitespace \cup {"-"}
        THEN CharAt(s, q) ELSE ""])

\* C18: cleanText returns the text with each run of white space collapsed to
\* one space, every character that is not a letter, a digit, white space or
\* a hyphen deleted (not replaced), and the ends trimmed; only letters,
\* digits, single spaces and hyphens appear in the result.
C18_CleanDeletes ==
    fn = "cleanText" =>
        /\ out[1] = Trim(DeleteSpecialChars(CollapseWhitespace(arg)))
        /\ CharsOf(out[1]) \subseteq
              UpperLetters \cup LowerLetters \cup Digits \cup {" ", "-"}
        /\ ~HasWhitespaceRun(out[1])

---------------------------------------------------------------------------
(* C19 *)

\* The O at position p is a word of its own
StandaloneO(s, p) ==
    /\ CharAt(s, p) = "O"
    /\ ~IsWordAt(s, p - 1)
    /\ ~IsWordAt(s, p + 1)

\* C19: fixOCRErrors replaces every standalone O of the upper-cased input by
\* the digit 0, whatever the neighbouring characters are, a neighbouring
\* section sign or vertical bar included.
C19_StandaloneO ==
    fn = "fixOCRErrors" =>
        /\ Len(out[1]) = Len(arg)
        /\ \A p \in 1..Len(arg) :
            StandaloneO(ToUpperCase(arg), p) => CharAt(out[1], p) = "0"

---------------------------------------------------------------------------
(* C20 *)

\* C20: getAccessToken returns the cached token without a new token request
\* only when a token is cached and the time is strictly before tokenExpiry,
\* which was set to the time the token response was received plus
\* (expires_in - 300) seconds; at or after tokenExpiry, or without a cached
\* token, it requests a new token; a failed request leaves cachedToken and
\* tokenExpiry unchanged.
C20_TokenCache ==
    /\ cachedToken # NoToken =>
        /\ Len(lastSet) = 1
        /\ tokenExpiry = lastSet[1].at + (lastSet[1].expires_in - 300) * 1000
    /\ \A c \in Callers :
        /\ caller[c].kind = "cached" =>
            /\ caller[c].seen.token # NoToken
            /\ caller[c].seen.at < caller[c].seen.expiry
            /\ caller[c].seen.expiry =
                  caller[c].seen.set[1].at
                    + (caller[c].seen.set[1].expires_in - 300) * 1000
            /\ caller[c].returned = caller[c].seen.token
            /\ caller[c].requestsAfter = caller[c].seen.requests
        /\ caller[c].kind \in {"awaiting", "fresh", "failed"} =>
            \/ caller[c].seen.token = NoToken
            \/ caller[c].seen.at >= caller[c].seen.expiry
        /\ caller[c].kind = "failed" => caller[c].before = caller[c].after

\* A caller got the cached token, and the other one has asked for a new one
\* at the very millisecond of tokenExpiry
C20_Witness ==
    \E c \in Callers : \E d \in Callers :
        /\ caller[c].kind = "cached"
        /\ caller[d].kind = "awaiting"
        /\ caller[d].seen.token # NoToken
        /\ caller[d].seen.at = caller[d].seen.expiry

---------------------------------------------------------------------------
(* C21 *)

InFlight == imgPc \in {"preprocessing", "ocr", "parsing"}

\* The running call can take a step: an awaited promise can settle, the
\* parser can step, or the parser has returned
CanStepImage ==
    \/ imgPc \in {"preprocessing", "ocr"}
    \/ imgPc = "parsing" /\ (Finished \/ CanStep)

\* The steps of parseVehicles still to come, at most
ParserRank ==
    IF pc = "start" THEN Len(text) + 3
    ELSE IF pc = "loop" THEN Len(lines) - i + 2
    ELSE 0

\* The steps of the running processImage call still to come, at most
ImageRank ==
    IF imgPc = "preprocessing" THEN 2000
    ELSE IF imgPc = "ocr" THEN 1000
    ELSE IF imgPc = "parsing" THEN 1 + ParserRank
    ELSE 0

\* C21: every processImage call finishes, with isProcessing false, whether
\* the awaited steps succeed or throw (a running call can always step while
\* its promises settle, and each of its steps brings the end nearer); the
\* previous vehicle list is cleared before the new image is processed; no
\* call finishes with an empty vehicle list without having shown an alert.
C21_ProcessImage ==
    /\ [](InFlight => isProcessing /\ shownVehicles = << >> /\ CanStepImage)
    /\ [](imgPc = "finished" =>
            /\ ~isProcessing
            /\ shownVehicles = << >> => alerts > alertsAtStart)
    /\ [][InFlight => ImageRank' < ImageRank /\ ImageRank' >= 0]_vars

\* The second image fails in the OCR after the first one gave two records
C21_Witness ==
    /\ images = 2
    /\ imgPc = "finished"
    /\ Len(vehicles) = 2
    /\ shownVehicles = << >>
    /\ alerts = 1
    /\ ~isProcessing

---------------------------------------------------------------------------
(* C22 *)

\* C22: whenever no search is in flight, what the modal shows (the items, or
\* the error of a failed search) comes from the most recently started
\* search: the completion of an earlier search never overwrites the items or
\* the error of a later one; and loading stays true until every search in
\* flight has completed.
C22_LatestSearchWins ==
    /\ inFlight = {} /\ searches > 0 =>
        \/ items.search = searches /\ error.search \in {0, searches}
        \/ error.search = searches /\ error.message = "failed"
    /\ inFlight # {} => loading

---------------------------------------------------------------------------
(* C23 *)

\* The makes that start the upper-cased text
PrefixMakes(s) ==
    { k \in DOMAIN COMMON_MAKES : StartsWith(ToUpperCase(s), COMMON_MAKES[k]) }

\* The text split after the k-th make
SplitAfter(s, k) ==
    COMMON_MAKES[k] \o " " \o SubSeq(s, Len(COMMON_MAKES[k]) + 1, Len(s))

\* C23: no name of the make list is a prefix of another name of the list,
\* so at most one make is a prefix of any text, and splitMakeModel returns
\* the same text whichever matching make the list puts first.
C23_PrefixFree ==
    /\ \A j \in DOMAIN COMMON_MAKES : \A k \in DOMAIN COMMON_MAKES :
        j # k => ~StartsWith(COMMON_MAKES[j], COMMON_MAKES[k])
    /\ fn = "splitMakeModel" =>
        /\ Cardinality(PrefixMakes(arg)) <= 1
        /\ \A k \in PrefixMakes(arg) :
            Len(arg) > Len(COMMON_MAKES[k]) => out[1] = SplitAfter(arg, k)
        /\ (\A k \in PrefixMakes(arg) : Len(arg) = Len(COMMON_MAKES[k]))
                => out[1] = arg

\* A text that starts with CHEVROLET, the name nearest to another one
\* (CHEVY), has been split
C23_Witness ==
    /\ fn = "splitMakeModel"
    /\ arg = "CHEVROLETIMPALA"
    /\ PrefixMakes(arg) = {1}
    /\ out[1] = "CHEVROLET IMPALA"

---------------------------------------------------------------------------
(* C24 *)

\* C24: cleanText is idempotent: cleaning a text that cleanText returned
\* (the fullText of a fallback record is one) returns it unchanged.
C24_CleanIdempotent ==
    fn = "cleanText again" => out[1] = arg

====
